---- MODULE Spec2Model ----
(***************************************************************************)
(* Index persistence layer of faiss-rs (src/index/io.rs): write_index,     *)
(* read_index, read_index_with_flags, serialize and deserialize, together  *)
(* with the native engine they call across the FFI boundary, the file      *)
(* system the engine writes to, and the caller that owns the handles.      *)
(***************************************************************************)
EXTENDS Integers, Sequences, FiniteSets, TLC

(* ------------------------------ bounds -------------------------------- *)
\* longest path text the caller supplies
MaxPathLen == 1
\* most vectors an index holds
MaxN == 1
\* most index handles the caller holds at once
MaxHandles == 2
\* most foreign serialization buffers outstanding at once
MaxBufs == 2
\* most spare bytes (capacity - size) of a foreign serialization buffer
MaxPad == 1

(* ------------------------------ bytes --------------------------------- *)
\* the byte CString::new rejects and that terminates a C string
NUL == 0
\* a non-NUL path byte
PathByte == 97
\* dimension of the indexes the tests build
D == 8
Dims == {D, 2 * D}
\* first byte of every encoding the engine writes
Magic == 73
\* content of the spare bytes of a foreign buffer, past its size
Spare == 170

SeqsUpTo(S, n) == UNION {[1..k -> S] : k \in 0..n}
\* caller-supplied path texts (Rust &str; may contain NUL)
PathTexts == SeqsUpTo({NUL, PathByte}, MaxPathLen)
ContainsNul(s) == \E i \in 1..Len(s) : s[i] = NUL
\* paths at which a file can exist
FilePaths == {s \in PathTexts : s # <<>> /\ ~ContainsNul(s)}

(* --------------------------- Path Codec ------------------------------- *)
\* mutant: the text is turned into a C string without looking for NUL
CStringNew_unchecked(s) == [ok |-> TRUE, cstr |-> Append(s, NUL)]

\* std::ffi::CString::new(f).map_err(|_| Error::BadFilePath)
CStringNew(s) ==
  IF ContainsNul(s)
    THEN [ok |-> FALSE, cstr |-> <<>>]
    ELSE [ok |-> TRUE, cstr |-> Append(s, NUL)]

\* what the engine reads through f.as_ptr(): the bytes before the first NUL
CStr(c) ==
  LET stops == {i \in 1..Len(c) : c[i] = NUL}
      first == IF stops = {} THEN Len(c) + 1
               ELSE CHOOSE i \in stops : \A j \in stops : i <= j
  IN  SubSeq(c, 1, first - 1)

(* ----------------------------- I/O flags ------------------------------ *)
MEM_RESIDENT == 0
MEM_MAP == 1
READ_ONLY == 2
DefinedFlags == {MEM_RESIDENT, MEM_MAP, READ_ONLY}
\* the two axes: storage strategy and access mode
StorageFlags == {MEM_RESIDENT, MEM_MAP}
AccessFlags == {MEM_RESIDENT, READ_ONLY}

\* mutant: the bit patterns are added instead of OR-ed
BitOr_add(a, b) == a + b

RECURSIVE BitOr(_, _)
\* impl BitOr for IoFlags: bitwise OR of the two bit patterns
BitOr(a, b) ==
  IF a = 0 THEN b
  ELSE IF b = 0 THEN a
  ELSE (IF a % 2 = 1 \/ b % 2 = 1 THEN 1 ELSE 0) + 2 * BitOr(a \div 2, b \div 2)

\* impl From<IoFlags> for i32 (IoFlags::MEM_RESIDENT.into())
Into(f) == f
\* io_flags.0 as c_int: i32 to c_int, the same 32-bit type
AsCInt(f) == f

\* the bits the engine's reader defines (IO_FLAG_MMAP, IO_FLAG_READ_ONLY)
BoundaryBits == {1, 2}
RECURSIVE SumSet(_)
SumSet(S) == IF S = {} THEN 0 ELSE LET x == CHOOSE y \in S : TRUE IN x + SumSet(S \ {x})
KnownCodes == {SumSet(S) : S \in SUBSET BoundaryBits}

(* ------------------------- native engine ------------------------------ *)
NullPtr == 0
Ptrs == 1..MaxHandles
\* every pointer value a handle can hold
Addrs == {NullPtr} \cup Ptrs
NoIndex == [live |-> FALSE, d |-> 0, ntotal |-> 0, ser |-> FALSE]
NoFile == [exists |-> FALSE, data |-> <<>>]
\* status codes of the C API: 0 success, negative failure
OK == 0
FaissException == -2

\* the persisted form of an index: header (magic, d, ntotal) and one byte per vector
Encode(ix) == <<Magic, ix.d, ix.ntotal>> \o [i \in 1..ix.ntotal |-> ix.d]
ValidEncoding(bs) ==
  /\ Len(bs) >= 3
  /\ bs[1] = Magic
  /\ Len(bs) = 3 + bs[3]
  /\ \A i \in 4..Len(bs) : bs[i] = bs[2]
Decode(bs) == [live |-> TRUE, d |-> bs[2], ntotal |-> bs[3], ser |-> TRUE]

FreePtrs(hp) == {p \in Ptrs : ~hp[p].live}
\* the address the engine's allocator hands out next
Alloc(hp) == CHOOSE p \in FreePtrs(hp) : \A q \in FreePtrs(hp) : p <= q

\* faiss_write_index_fname(index, fname) -> status, with the file system after it
faiss_write_index_fname(ptr, cstr, files, hp) ==
  LET path == CStr(cstr) IN
  IF path \notin FilePaths
    THEN [status |-> FaissException, fs |-> files]
  ELSE IF ~hp[ptr].ser
    THEN [status |-> FaissException,
          fs |-> [files EXCEPT ![path] = [exists |-> TRUE, data |-> <<>>]]]
  ELSE [status |-> OK,
        fs |-> [files EXCEPT ![path] = [exists |-> TRUE, data |-> Encode(hp[ptr])]]]

\* faiss_read_index_fname(fname, io_flags, &mut inner) -> status, out pointer, heap
faiss_read_index_fname(cstr, io_flags, inner, files, hp) ==
  LET path == CStr(cstr) IN
  IF path \in FilePaths /\ files[path].exists /\ ValidEncoding(files[path].data)
       /\ FreePtrs(hp) # {}
    THEN [status |-> OK, inner |-> Alloc(hp),
          heap |-> [hp EXCEPT ![Alloc(hp)] = Decode(files[path].data)]]
    ELSE [status |-> FaissException, inner |-> inner, heap |-> hp]

\* serialize_index(index, &mut bytes, &mut size, &mut capacity) -> status
serialize_index(ptr, pad, hp) ==
  IF hp[ptr].ser
    THEN [status |-> OK, allocated |-> TRUE,
          data |-> Encode(hp[ptr]) \o [i \in 1..pad |-> Spare],
          size |-> Len(Encode(hp[ptr])),
          capacity |-> Len(Encode(hp[ptr])) + pad]
    ELSE [status |-> FaissException, allocated |-> FALSE,
          data |-> <<>>, size |-> 0, capacity |-> 0]

\* deserialize_index(bytes, size, &mut inner) -> status, out pointer, heap
deserialize_index(bytes, size, inner, hp) ==
  LET seen == SubSeq(bytes, 1, size) IN
  IF ValidEncoding(seen) /\ FreePtrs(hp) # {}
    THEN [status |-> OK, inner |-> Alloc(hp),
          heap |-> [hp EXCEPT ![Alloc(hp)] = Decode(seen)]]
    ELSE [status |-> FaissException, inner |-> inner, heap |-> hp]

(* --------------------------- Result Wrapper --------------------------- *)
\* faiss_try(code): Ok(()) on 0, Err(NativeError{code}) otherwise
faiss_try(code) == code = OK

Ok(ptr, bytes) ==
  [tag |-> "Ok", err |-> "None", code |-> OK, ptr |-> ptr, bytes |-> bytes]
ErrBadFilePath ==
  [tag |-> "Err", err |-> "BadFilePath", code |-> OK, ptr |-> NullPtr, bytes |-> <<>>]
ErrNative(code) ==
  [tag |-> "Err", err |-> "NativeError", code |-> code, ptr |-> NullPtr, bytes |-> <<>>]

NoCall == [prim |-> "none", arg |-> <<>>, flags |-> 0, status |-> OK]
NoBuf == [data |-> <<>>, size |-> 0, capacity |-> 0]

(* ------------------------------ state --------------------------------- *)
VARIABLES
  fs,        \* the file system: FilePaths -> [exists, data]
  heap,      \* the engine's index objects: Addrs -> [live, d, ntotal, ser]
  handles,   \* per pointer value, how many of the caller's live handles hold it
  held,      \* the Vec<u8> the caller got from its latest successful serialize
  cbufs,     \* number of foreign serialization buffers allocated and not released
  written,   \* per path: N and D of the index of the latest successful write_index
  badFree,   \* whether an index object was ever released while not live
  lastOp     \* the latest call: its inputs, its boundary call, its result

vars == <<fs, heap, handles, held, cbufs, written, badFree, lastOp>>

Unknown == [known |-> FALSE, d |-> 0, ntotal |-> 0]
Shape(ix) == [known |-> TRUE, d |-> ix.d, ntotal |-> ix.ntotal]
NoHeld == [has |-> FALSE, bytes |-> <<>>, src |-> Unknown]

Op(name, text, flags, o, src) ==
  [op |-> name, text |-> text, flags |-> flags, call |-> o.call, res |-> o.res,
   wrapped |-> o.wrapped, buf |-> o.buf, src |-> src]
EnvOp(name) ==
  [op |-> name, text |-> <<>>, flags |-> MEM_RESIDENT, call |-> NoCall,
   res |-> Ok(NullPtr, <<>>), wrapped |-> {}, buf |-> NoBuf, src |-> Unknown]

Init ==
  /\ fs = [p \in FilePaths |-> NoFile]
  /\ heap = [a \in Addrs |-> NoIndex]
  /\ handles = [a \in Addrs |-> 0]
  /\ held = NoHeld
  /\ cbufs = 0
  /\ written = [p \in FilePaths |-> Unknown]
  /\ badFree = FALSE
  /\ lastOp = EnvOp("init")

(* ------------------------------ handlers ------------------------------ *)
\* IndexImpl::from_inner_ptr(inner): the new handle holds exactly that pointer
from_inner_ptr(inner) == inner

\* mutant: the status of the write primitive is dropped
write_index_unchecked(index, file_name) ==
  LET f == CStringNew(file_name) IN
  IF ~f.ok
    THEN [res |-> ErrBadFilePath, call |-> NoCall, wrapped |-> {}, buf |-> NoBuf,
          fs |-> fs]
    ELSE
      LET r == faiss_write_index_fname(index, f.cstr, fs, heap)
          call == [prim |-> "faiss_write_index_fname", arg |-> f.cstr,
                   flags |-> 0, status |-> r.status]
      IN  [res |-> Ok(NullPtr, <<>>), call |-> call, wrapped |-> {}, buf |-> NoBuf,
           fs |-> r.fs]

\* pub fn write_index(index, file_name) -> Result<()>
write_index(index, file_name) ==
  LET f == CStringNew(file_name) IN
  IF ~f.ok
    THEN [res |-> ErrBadFilePath, call |-> NoCall, wrapped |-> {}, buf |-> NoBuf,
          fs |-> fs]
    ELSE
      LET r == faiss_write_index_fname(index, f.cstr, fs, heap)
          call == [prim |-> "faiss_write_index_fname", arg |-> f.cstr,
                   flags |-> 0, status |-> r.status]
      IN  [res |-> IF faiss_try(r.status) THEN Ok(NullPtr, <<>>) ELSE ErrNative(r.status),
           call |-> call, wrapped |-> {}, buf |-> NoBuf, fs |-> r.fs]

\* mutant: the out-pointer is wrapped before the status is looked at
read_index_wrap_first(file_name) ==
  LET f == CStringNew(file_name) IN
  IF ~f.ok
    THEN [res |-> ErrBadFilePath, call |-> NoCall, wrapped |-> {}, buf |-> NoBuf,
          heap |-> heap]
    ELSE
      LET inner == NullPtr
          r == faiss_read_index_fname(f.cstr, Into(MEM_RESIDENT), inner, fs, heap)
          call == [prim |-> "faiss_read_index_fname", arg |-> f.cstr,
                   flags |-> Into(MEM_RESIDENT), status |-> r.status]
      IN  [res |-> Ok(from_inner_ptr(r.inner), <<>>), call |-> call,
           wrapped |-> {r.inner}, buf |-> NoBuf, heap |-> r.heap]

\* mutant: the file is read with the memory-mapped strategy instead of the default
read_index_mmap(file_name) ==
  LET f == CStringNew(file_name) IN
  IF ~f.ok
    THEN [res |-> ErrBadFilePath, call |-> NoCall, wrapped |-> {}, buf |-> NoBuf,
          heap |-> heap]
    ELSE
      LET inner == NullPtr
          r == faiss_read_index_fname(f.cstr, Into(MEM_MAP), inner, fs, heap)
          call == [prim |-> "faiss_read_index_fname", arg |-> f.cstr,
                   flags |-> Into(MEM_MAP), status |-> r.status]
      IN  IF ~faiss_try(r.status)
            THEN [res |-> ErrNative(r.status), call |-> call, wrapped |-> {},
                  buf |-> NoBuf, heap |-> r.heap]
            ELSE [res |-> Ok(from_inner_ptr(r.inner), <<>>), call |-> call,
                  wrapped |-> {r.inner}, buf |-> NoBuf, heap |-> r.heap]

\* pub fn read_index(file_name) -> Result<IndexImpl>
read_index(file_name) ==
  LET f == CStringNew(file_name) IN
  IF ~f.ok
    THEN [res |-> ErrBadFilePath, call |-> NoCall, wrapped |-> {}, buf |-> NoBuf,
          heap |-> heap]
    ELSE
      LET inner == NullPtr
          r == faiss_read_index_fname(f.cstr, Into(MEM_RESIDENT), inner, fs, heap)
          call == [prim |-> "faiss_read_index_fname", arg |-> f.cstr,
                   flags |-> Into(MEM_RESIDENT), status |-> r.status]
      IN  IF ~faiss_try(r.status)
            THEN [res |-> ErrNative(r.status), call |-> call, wrapped |-> {},
                  buf |-> NoBuf, heap |-> r.heap]
            ELSE [res |-> Ok(from_inner_ptr(r.inner), <<>>), call |-> call,
                  wrapped |-> {r.inner}, buf |-> NoBuf, heap |-> r.heap]

\* mutant: a failed read is reported as a success with a default status code
read_index_with_flags_swallow(file_name, flags) ==
  LET f == CStringNew(file_name) IN
  IF ~f.ok
    THEN [res |-> ErrBadFilePath, call |-> NoCall, wrapped |-> {}, buf |-> NoBuf,
          heap |-> heap]
    ELSE
      LET inner == NullPtr
          r == faiss_read_index_fname(f.cstr, AsCInt(flags), inner, fs, heap)
          call == [prim |-> "faiss_read_index_fname", arg |-> f.cstr,
                   flags |-> AsCInt(flags), status |-> r.status]
      IN  IF ~faiss_try(r.status)
            THEN [res |-> ErrBadFilePath, call |-> call, wrapped |-> {},
                  buf |-> NoBuf, heap |-> r.heap]
            ELSE [res |-> Ok(from_inner_ptr(r.inner), <<>>), call |-> call,
                  wrapped |-> {r.inner}, buf |-> NoBuf, heap |-> r.heap]

\* pub fn read_index_with_flags(file_name, io_flags) -> Result<IndexImpl>
read_index_with_flags(file_name, flags) ==
  LET f == CStringNew(file_name) IN
  IF ~f.ok
    THEN [res |-> ErrBadFilePath, call |-> NoCall, wrapped |-> {}, buf |-> NoBuf,
          heap |-> heap]
    ELSE
      LET inner == NullPtr
          r == faiss_read_index_fname(f.cstr, AsCInt(flags), inner, fs, heap)
          call == [prim |-> "faiss_read_index_fname", arg |-> f.cstr,
                   flags |-> AsCInt(flags), status |-> r.status]
      IN  IF ~faiss_try(r.status)
            THEN [res |-> ErrNative(r.status), call |-> call, wrapped |-> {},
                  buf |-> NoBuf, heap |-> r.heap]
            ELSE [res |-> Ok(from_inner_ptr(r.inner), <<>>), call |-> call,
                  wrapped |-> {r.inner}, buf |-> NoBuf, heap |-> r.heap]

\* mutant: the slice is taken over the capacity instead of the size
serialize_capacity(index, pad) ==
  LET r == serialize_index(index, pad, heap)
      call == [prim |-> "serialize_index", arg |-> <<>>, flags |-> 0,
               status |-> r.status]
      foreign == [data |-> r.data, size |-> r.size, capacity |-> r.capacity]
      allocated == IF r.allocated THEN 1 ELSE 0
  IN  IF ~faiss_try(r.status)
        THEN [res |-> ErrNative(r.status), call |-> call, wrapped |-> {},
              buf |-> foreign, allocated |-> allocated, released |-> 0]
        ELSE [res |-> Ok(NullPtr, SubSeq(r.data, 1, r.capacity)), call |-> call,
              wrapped |-> {}, buf |-> foreign, allocated |-> allocated, released |-> 0]

\* pub unsafe fn serialize(index) -> Result<Vec<u8>>; pad is the spare capacity the
\* engine's buffer happens to have
serialize(index, pad) ==
  LET r == serialize_index(index, pad, heap)
      call == [prim |-> "serialize_index", arg |-> <<>>, flags |-> 0,
               status |-> r.status]
      foreign == [data |-> r.data, size |-> r.size, capacity |-> r.capacity]
      allocated == IF r.allocated THEN 1 ELSE 0
  IN  IF ~faiss_try(r.status)
        THEN [res |-> ErrNative(r.status), call |-> call, wrapped |-> {},
              buf |-> foreign, allocated |-> allocated, released |-> 0]
        ELSE
          \* std::slice::from_raw_parts(bytes, size).to_vec(); the foreign buffer
          \* is not freed (line 48: "TODO: free memory")
          [res |-> Ok(NullPtr, SubSeq(r.data, 1, r.size)), call |-> call,
           wrapped |-> {}, buf |-> foreign, allocated |-> allocated, released |-> 0]

\* mutant: the length handed to the engine is one short
deserialize_short(bytes) ==
  LET size == IF Len(bytes) = 0 THEN 0 ELSE Len(bytes) - 1
      inner == NullPtr
      r == deserialize_index(bytes, size, inner, heap)
      call == [prim |-> "deserialize_index", arg |-> bytes, flags |-> 0,
               status |-> r.status]
  IN  IF ~faiss_try(r.status)
        THEN [res |-> ErrNative(r.status), call |-> call, wrapped |-> {},
              buf |-> NoBuf, heap |-> r.heap]
        ELSE [res |-> Ok(from_inner_ptr(r.inner), <<>>), call |-> call,
              wrapped |-> {r.inner}, buf |-> NoBuf, heap |-> r.heap]

\* mutant: the engine is asked twice and only the second index is wrapped
deserialize_twice(bytes) ==
  LET size == Len(bytes)
      inner == NullPtr
      r0 == deserialize_index(bytes, size, inner, heap)
      r == deserialize_index(bytes, size, inner, r0.heap)
      call == [prim |-> "deserialize_index", arg |-> bytes, flags |-> 0,
               status |-> r.status]
  IN  IF ~faiss_try(r.status)
        THEN [res |-> ErrNative(r.status), call |-> call, wrapped |-> {},
              buf |-> NoBuf, heap |-> r.heap]
        ELSE [res |-> Ok(from_inner_ptr(r.inner), <<>>), call |-> call,
              wrapped |-> {r.inner}, buf |-> NoBuf, heap |-> r.heap]

\* pub fn deserialize(bytes) -> Result<IndexImpl>
deserialize(bytes) ==
  LET size == Len(bytes)
      inner == NullPtr
      r == deserialize_index(bytes, size, inner, heap)
      call == [prim |-> "deserialize_index", arg |-> bytes, flags |-> 0,
               status |-> r.status]
  IN  IF ~faiss_try(r.status)
        THEN [res |-> ErrNative(r.status), call |-> call, wrapped |-> {},
              buf |-> NoBuf, heap |-> r.heap]
        ELSE [res |-> Ok(from_inner_ptr(r.inner), <<>>), call |-> call,
              wrapped |-> {r.inner}, buf |-> NoBuf, heap |-> r.heap]

(* ------------------------------ actions ------------------------------- *)
\* what the boundary call of outcome o was given as its path
CallPath(o) == CStr(o.call.arg)

\* the pointers the caller holds a handle of
Held == {a \in Addrs : handles[a] > 0}
RECURSIVE Sum(_, _)
Sum(f, S) == IF S = {} THEN 0 ELSE LET x == CHOOSE y \in S : TRUE IN f[x] + Sum(f, S \ {x})
\* how many handles the caller holds
NHandles == Sum(handles, Addrs)

\* the caller builds an index (FlatIndex::new_l2(D), or another kind the engine
\* may not know how to persist) and keeps its handle
Call_new_index(d, ser) ==
  /\ ser \/ d = D
  /\ NHandles < MaxHandles
  /\ FreePtrs(heap) # {}
  /\ heap' = [heap EXCEPT ![Alloc(heap)] =
                [live |-> TRUE, d |-> d, ntotal |-> 0, ser |-> ser]]
  /\ handles' = [handles EXCEPT ![Alloc(heap)] = @ + 1]
  /\ lastOp' = EnvOp("new_index")
  /\ UNCHANGED <<fs, held, cbufs, written, badFree>>

\* index.add(some_data): one more vector
Call_add(h) ==
  /\ heap[h].live
  /\ heap[h].ntotal < MaxN
  /\ heap' = [heap EXCEPT ![h].ntotal = @ + 1]
  /\ lastOp' = EnvOp("add")
  /\ UNCHANGED <<fs, handles, held, cbufs, written, badFree>>

\* a handle goes out of scope: its Drop releases the native index
Call_drop(h) ==
  /\ heap' = [heap EXCEPT ![h] = NoIndex]
  /\ badFree' = (badFree \/ (h # NullPtr /\ ~heap[h].live))
  /\ handles' = [handles EXCEPT ![h] = @ - 1]
  /\ lastOp' = [EnvOp("drop") EXCEPT !.res.ptr = h]
  /\ UNCHANGED <<fs, held, cbufs, written>>

\* ::std::fs::remove_file(&filepath)
Call_remove_file(p) ==
  /\ fs[p].exists
  /\ fs' = [fs EXCEPT ![p] = NoFile]
  /\ written' = [written EXCEPT ![p] = Unknown]
  /\ lastOp' = EnvOp("remove_file")
  /\ UNCHANGED <<heap, handles, held, cbufs, badFree>>

Call_write_index(h, file_name) ==
  LET o == write_index(h, file_name) IN
  /\ fs' = o.fs
  /\ written' = [p \in FilePaths |->
                   IF o.call.prim = "none" \/ CallPath(o) # p THEN written[p]
                   ELSE IF o.res.tag = "Ok" THEN Shape(heap[h])
                   ELSE Unknown]
  /\ lastOp' = Op("write_index", file_name, MEM_RESIDENT, o, Unknown)
  /\ UNCHANGED <<heap, handles, held, cbufs, badFree>>

\* the handle a successful read or deserialize returns joins the caller's handles
Keep(o) ==
  IF o.res.tag = "Ok" THEN [handles EXCEPT ![o.res.ptr] = @ + 1] ELSE handles
\* N and D the file at the path of text was last written from, if still known
Expect(text) ==
  IF ~ContainsNul(text) /\ text \in FilePaths THEN written[text] ELSE Unknown

Call_read_index(file_name) ==
  LET o == read_index(file_name) IN
  /\ NHandles < MaxHandles
  /\ heap' = o.heap
  /\ handles' = Keep(o)
  /\ lastOp' = Op("read_index", file_name, MEM_RESIDENT, o, Expect(file_name))
  /\ UNCHANGED <<fs, held, cbufs, written, badFree>>

\* read_index_with_flags("file_name", IoFlags::MEM_MAP | IoFlags::READ_ONLY):
\* the caller passes the combination a | b of two flag values
Call_read_index_with_flags(file_name, a, b) ==
  LET o == read_index_with_flags(file_name, BitOr(a, b)) IN
  /\ NHandles < MaxHandles
  /\ heap' = o.heap
  /\ handles' = Keep(o)
  /\ lastOp' = Op("read_index_with_flags", file_name, BitOr(a, b), o, Expect(file_name))
  /\ UNCHANGED <<fs, held, cbufs, written, badFree>>

Call_serialize(h, pad) ==
  LET o == serialize(h, pad) IN
  /\ cbufs < MaxBufs
  /\ cbufs' = cbufs + o.allocated - o.released
  /\ held' = IF o.res.tag = "Ok"
               THEN [has |-> TRUE, bytes |-> o.res.bytes, src |-> Shape(heap[h])]
               ELSE held
  /\ lastOp' = Op("serialize", <<>>, MEM_RESIDENT, o, Shape(heap[h]))
  /\ UNCHANGED <<fs, heap, handles, written, badFree>>

\* byte slices the caller can pass besides the buffer it holds
OtherBytes == {<<>>, <<Magic, D>>}

Call_deserialize(bytes) ==
  LET o == deserialize(bytes) IN
  /\ NHandles < MaxHandles
  /\ heap' = o.heap
  /\ handles' = Keep(o)
  /\ lastOp' = Op("deserialize", <<>>, MEM_RESIDENT, o,
                  IF held.has /\ bytes = held.bytes THEN held.src ELSE Unknown)
  /\ UNCHANGED <<fs, held, cbufs, written, badFree>>

\* every call a user of the module can make
Next ==
  \/ \E d \in Dims, ser \in BOOLEAN : Call_new_index(d, ser)
  \/ \E h \in Held : Call_add(h)
  \/ \E h \in Held : Call_drop(h)
  \/ \E p \in FilePaths : Call_remove_file(p)
  \/ \E h \in Held, t \in PathTexts : Call_write_index(h, t)
  \/ \E t \in PathTexts : Call_read_index(t)
  \/ \E t \in PathTexts, a \in StorageFlags, b \in AccessFlags :
       Call_read_index_with_flags(t, a, b)
  \/ \E h \in Held, pad \in 0..MaxPad : Call_serialize(h, pad)
  \/ \E bytes \in {held.bytes} \cup OtherBytes : Call_deserialize(bytes)

Spec == Init /\ [][Next]_vars

\* The specifications below restrict Next to the calls of one kind of caller;
\* each of their steps is a step of Next.

\* a caller that fills indexes of dimension D, writes them to files and reads
\* them back (tests::write_read)
NextFile ==
  \/ \E ser \in BOOLEAN : Call_new_index(D, ser)
  \/ \E h \in Held : Call_add(h)
  \/ \E h \in Held : Call_drop(h)
  \/ \E p \in FilePaths : Call_remove_file(p)
  \/ \E h \in Held, t \in PathTexts : Call_write_index(h, t)
  \/ \E t \in PathTexts : Call_read_index(t)

SpecFile == Init /\ [][NextFile]_vars

\* a caller that writes indexes of dimension D and reads them with and without
\* flags (tests::test_read_with_flags)
NextFlags ==
  \/ \E ser \in BOOLEAN : Call_new_index(D, ser)
  \/ \E h \in Held : Call_drop(h)
  \/ \E p \in FilePaths : Call_remove_file(p)
  \/ \E h \in Held, t \in PathTexts : Call_write_index(h, t)
  \/ \E t \in PathTexts : Call_read_index(t)
  \/ \E t \in PathTexts, a \in StorageFlags, b \in AccessFlags :
       Call_read_index_with_flags(t, a, b)

SpecFlags == Init /\ [][NextFlags]_vars

\* a caller that fills indexes of either dimension and passes them through
\* buffers (tests::serialize_deserialize)
NextBuf ==
  \/ \E d \in Dims, ser \in BOOLEAN : Call_new_index(d, ser)
  \/ \E h \in Held : Call_add(h)
  \/ \E h \in Held : Call_drop(h)
  \/ \E h \in Held, pad \in 0..MaxPad : Call_serialize(h, pad)
  \/ \E bytes \in {held.bytes} \cup OtherBytes : Call_deserialize(bytes)

SpecBuf == Init /\ [][NextBuf]_vars

\* a caller that uses all five functions on indexes of dimension D
NextAll ==
  \/ \E ser \in BOOLEAN : Call_new_index(D, ser)
  \/ \E h \in Held : Call_drop(h)
  \/ \E h \in Held, t \in PathTexts : Call_write_index(h, t)
  \/ \E t \in PathTexts : Call_read_index(t)
  \/ \E t \in PathTexts, a \in StorageFlags, b \in AccessFlags :
       Call_read_index_with_flags(t, a, b)
  \/ \E h \in Held, pad \in 0..MaxPad : Call_serialize(h, pad)
  \/ \E bytes \in {held.bytes} \cup OtherBytes : Call_deserialize(bytes)

SpecAll == Init /\ [][NextAll]_vars

(* ------------------------------ properties ---------------------------- *)
PathOps == {"write_index", "read_index", "read_index_with_flags"}
ReadOps == {"read_index", "read_index_with_flags", "deserialize"}
HandlerOps == PathOps \cup {"serialize", "deserialize"}
SameShape(ix, src) == ix.live /\ ix.ntotal = src.ntotal /\ ix.d = src.d

\* C1: a read_index of a path whose latest write was a successful write_index of
\* an index with N elements and dimension D returns a handle with that N and D.
C1_FileRoundTrip ==
  (lastOp.op = "read_index" /\ lastOp.src.known) =>
    /\ lastOp.res.tag = "Ok"
    /\ SameShape(heap[lastOp.res.ptr], lastOp.src)

C1_Witness ==
  /\ lastOp.op = "read_index"
  /\ lastOp.src.known
  /\ lastOp.src.ntotal = MaxN
  /\ lastOp.res.tag = "Ok"
  /\ \E h \in Held : h # lastOp.res.ptr

C3_Rejected ==
  (lastOp'.op \in PathOps /\ ContainsNul(lastOp'.text)) =>
    /\ lastOp'.res = ErrBadFilePath
    /\ lastOp'.call = NoCall
    /\ lastOp'.wrapped = {}
    /\ fs' = fs /\ heap' = heap /\ handles' = handles
\* a state reached by handling a NUL-free path text
C3_Accepted ==
  (lastOp.op \in PathOps /\ ~ContainsNul(lastOp.text)) =>
    /\ lastOp.res.err # "BadFilePath"
    /\ lastOp.call.prim # "none"
    /\ lastOp.call.arg = Append(lastOp.text, NUL)

\* C3: a path text with a NUL byte makes write_index, read_index and
\* read_index_with_flags return BadFilePath with no boundary call made, the file
\* system, the engine's indexes and the handles left as they were; a NUL-free
\* text reaches the boundary and is never answered with BadFilePath.
C3_PathRejection == [][C3_Rejected]_vars /\ []C3_Accepted

C3_Witness ==
  /\ lastOp.op = "write_index"
  /\ ContainsNul(lastOp.text)
  /\ lastOp.res.err = "BadFilePath"
  /\ \E p \in FilePaths : fs[p].exists

\* the result of the latest handler call is a value or an error, never both
C4_Result ==
  lastOp.op \in HandlerOps =>
    /\ lastOp.res.tag \in {"Ok", "Err"}
    /\ lastOp.res.tag = "Ok" =>
         /\ lastOp.res.err = "None" /\ lastOp.res.code = OK
         /\ lastOp.call.status = OK /\ lastOp.call.prim # "none"
         /\ lastOp.op \in ReadOps =>
              lastOp.wrapped = {lastOp.res.ptr} /\ heap[lastOp.res.ptr].live
         /\ lastOp.op = "serialize" => ValidEncoding(lastOp.res.bytes)
    /\ lastOp.res.tag = "Err" =>
         /\ lastOp.res.err \in {"BadFilePath", "NativeError"}
         /\ lastOp.res.ptr = NullPtr /\ lastOp.res.bytes = <<>>
         /\ lastOp.wrapped = {}
    /\ lastOp.call.status # OK =>
         /\ lastOp.res = ErrNative(lastOp.call.status)
         /\ lastOp.wrapped = {}
    /\ NullPtr \notin lastOp.wrapped
\* a step that returned an error gave the caller no handle
C4_NoHandleOnError ==
  (lastOp'.op \in HandlerOps /\ lastOp'.res.tag = "Err") => handles' = handles

\* C4: every handler returns a value or an error, never both; a pointer is wrapped
\* only when the boundary's status is success, it is then a live index and never
\* null; on a non-success status nothing is wrapped and no handle is made.
C4_NoPartialSuccess == []C4_Result /\ [][C4_NoHandleOnError]_vars

C4_Witness ==
  /\ lastOp.op \in ReadOps
  /\ lastOp.call.prim # "none"
  /\ lastOp.call.status # OK
  /\ lastOp.res.tag = "Err"

\* C5: when serialize returns, every foreign buffer the boundary handed it has
\* been released once, so no foreign serialization buffer stays allocated.
C5_BuffersReleased == cbufs = 0

\* live indexes and handles correspond one to one
C6_Owned ==
  /\ \A p \in Ptrs : heap[p].live => handles[p] = 1
  /\ \A a \in Addrs : handles[a] > 0 => (a # NullPtr /\ heap[a].live)
  /\ ~badFree
\* a successful read made a new index and its only handle
C6_Fresh ==
  (lastOp'.op \in ReadOps /\ lastOp'.res.tag = "Ok") =>
    /\ ~heap[lastOp'.res.ptr].live
    /\ handles[lastOp'.res.ptr] = 0
    /\ heap'[lastOp'.res.ptr].live
    /\ handles' = [handles EXCEPT ![lastOp'.res.ptr] = 1]
    /\ \A p \in Ptrs \ {lastOp'.res.ptr} : heap'[p] = heap[p]
\* a drop released an index that was live
C6_Released ==
  lastOp'.op = "drop" =>
    /\ heap[lastOp'.res.ptr].live
    /\ ~heap'[lastOp'.res.ptr].live
    /\ handles'[lastOp'.res.ptr] = 0

\* C6: every live native index is owned by exactly one handle and every handle
\* owns a live index; a successful read_index, read_index_with_flags or
\* deserialize returns the sole handle of an index that did not exist before the
\* call, and drop releases the index of the dropped handle, which was live.
C6_SingleOwnership == []C6_Owned /\ [][C6_Fresh /\ C6_Released]_vars

C6_Witness ==
  /\ lastOp.op = "deserialize"
  /\ lastOp.res.tag = "Ok"
  /\ \E h \in Held : h # lastOp.res.ptr

\* C7: read_index_with_flags of a NUL-free path at which no file exists returns,
\* for every flags value, a NativeError with the boundary's status code and no
\* handle.
C7_MissingFile ==
  (/\ lastOp.op = "read_index_with_flags"
   /\ ~ContainsNul(lastOp.text)
   /\ (lastOp.text \in FilePaths => ~fs[lastOp.text].exists)) =>
    /\ lastOp.res.tag = "Err"
    /\ lastOp.res.err = "NativeError"
    /\ lastOp.res.code = lastOp.call.status
    /\ lastOp.res.code # OK
    /\ lastOp.res.ptr = NullPtr
    /\ lastOp.wrapped = {}

C7_Witness ==
  /\ lastOp.op = "read_index_with_flags"
  /\ lastOp.text \in FilePaths
  /\ ~fs[lastOp.text].exists
  /\ lastOp.flags = BitOr(MEM_MAP, READ_ONLY)
  /\ lastOp.res.err = "NativeError"

\* C8: in every state and for every path text, read_index and
\* read_index_with_flags with the default flags make the same boundary call and
\* return the same outcome; read_index_with_flags hands the boundary the code of
\* the flags it was given.
C8_ReadEquivalence ==
  /\ \A t \in PathTexts : read_index(t) = read_index_with_flags(t, MEM_RESIDENT)
  /\ (lastOp.op = "read_index" /\ lastOp.call.prim # "none") =>
       /\ lastOp.call.prim = "faiss_read_index_fname"
       /\ lastOp.call.flags = MEM_RESIDENT
  /\ (lastOp.op = "read_index_with_flags" /\ lastOp.call.prim # "none") =>
       /\ lastOp.call.prim = "faiss_read_index_fname"
       /\ lastOp.call.flags = lastOp.flags

C8_Witness ==
  /\ lastOp.op = "read_index_with_flags"
  /\ lastOp.flags = MEM_RESIDENT
  /\ lastOp.res.tag = "Ok"
  /\ \E t \in PathTexts : read_index(t).res.tag = "Ok"

\* C9: combining flags is associative and commutative with the default flags as
\* identity and zero value; memory-mapped combined with read-only differs from
\* each alone and from the default; every combination is a code the boundary
\* knows, and so is every code read_index_with_flags hands to the boundary.
C9_FlagsComposition ==
  LET F == DefinedFlags \cup {lastOp.flags} IN
  /\ MEM_RESIDENT = 0
  /\ \A f \in F, g \in F, k \in F :
       /\ BitOr(f, g) = BitOr(g, f)
       /\ BitOr(BitOr(f, g), k) = BitOr(f, BitOr(g, k))
       /\ BitOr(f, MEM_RESIDENT) = f
       /\ BitOr(f, g) \in KnownCodes
  /\ BitOr(MEM_MAP, READ_ONLY) \notin {MEM_MAP, READ_ONLY, MEM_RESIDENT}
  /\ lastOp.flags \in KnownCodes
  /\ lastOp.call.flags \in KnownCodes

C9_Witness ==
  /\ lastOp.op = "read_index_with_flags"
  /\ lastOp.call.prim # "none"
  /\ lastOp.call.flags = BitOr(MEM_MAP, READ_ONLY)
  /\ lastOp.call.flags \notin DefinedFlags

\* C10: a successful serialize returns exactly the first size bytes of the
\* foreign buffer, size being the byte count the boundary reported (not the
\* capacity); when the boundary fails no byte sequence is built.
C10_SerializedLength ==
  lastOp.op = "serialize" =>
    /\ lastOp.res.tag = "Ok" =>
         /\ lastOp.call.status = OK
         /\ Len(lastOp.res.bytes) = lastOp.buf.size
         /\ lastOp.res.bytes = SubSeq(lastOp.buf.data, 1, lastOp.buf.size)
    /\ lastOp.call.status # OK =>
         /\ lastOp.res.tag = "Err"
         /\ lastOp.res.bytes = <<>>

C10_Witness ==
  /\ lastOp.op = "serialize"
  /\ lastOp.res.tag = "Ok"
  /\ lastOp.buf.capacity > lastOp.buf.size
  /\ Len(lastOp.res.bytes) > 3

====
